---------------------------- MODULE Spec2Model ----------------------------
(***************************************************************************)
(* Model of src/data/convert.py: read a CSV file with pandas, drop the     *)
(* first column by position, write the rest back without an index column,  *)
(* print one confirmation line.                                            *)
(*                                                                         *)
(* A file is a sequence of lines, a line a sequence of one-character       *)
(* strings (the line terminator is the boundary between two lines).        *)
(* pd.read_csv and DataFrame.to_csv are modelled by what they do with      *)
(* their defaults: blank lines are skipped, empty header names become      *)
(* "Unnamed: i", a repeated name gets the first free ".k" suffix so that    *)
(* names stay unique, each column's type is                                *)
(* inferred (int64, float64, object), an empty field is NaN, numbers are   *)
(* written back in canonical form, and the csv writer quotes a lone empty  *)
(* field.                                                                  *)
(*                                                                         *)
(* Domain of the text model: fields over the characters 0-9 . a-z A-Z,     *)
(* the space and ':' of a generated column name, the quote, and the sign   *)
(* of an exponent; no signed number, NA word ("NA", "nan", ...) or boolean *)
(* word occurs; a number has at most 9 significant digits and is zero,     *)
(* below 1e-324 (too small for a double), or from 1e-308 (the normal       *)
(* range of a double) to below 2^31; every non-blank line of a file has    *)
(* as many fields as its header.                                           *)
(***************************************************************************)
EXTENDS Integers, Sequences, FiniteSets, TLC

\* ------------------------------------------------------------- bounds ---
MaxCols == 3    \* widest input table
MaxRows == 2    \* most data rows of an input table
MaxRuns == 2    \* runs of the script in one behaviour

\* --------------------------------------------------------------- text ---
DigitChars == <<"0", "1", "2", "3", "4", "5", "6", "7", "8", "9">>

IsDigit(c) == \E i \in 1..Len(DigitChars) : DigitChars[i] = c

DigitVal(c) == (CHOOSE i \in 1..Len(DigitChars) : DigitChars[i] = c) - 1

RECURSIVE Pow10(_)
Pow10(k) == IF k = 0 THEN 1 ELSE 10 * Pow10(k - 1)

\* str(n) of a non-negative integer
RECURSIVE IntText(_)
IntText(n) ==
    IF n < 10 THEN <<DigitChars[n + 1]>>
    ELSE Append(IntText(n \div 10), DigitChars[(n % 10) + 1])

\* value of a string of digits (leading zeros allowed)
RECURSIVE DigitsValue(_)
DigitsValue(t) ==
    IF t = <<>> THEN 0
    ELSE 10 * DigitsValue(SubSeq(t, 1, Len(t) - 1)) + DigitVal(t[Len(t)])

RECURSIVE ZeroPad(_, _)
ZeroPad(t, width) == IF Len(t) >= width THEN t ELSE ZeroPad(<<"0">> \o t, width)

RECURSIVE StripDots(_)
StripDots(t) ==
    IF t = <<>> THEN <<>>
    ELSE IF Head(t) = "." THEN StripDots(Tail(t))
    ELSE <<Head(t)>> \o StripDots(Tail(t))

RECURSIVE JoinWith(_, _)
JoinWith(fields, sep) ==
    IF fields = <<>> THEN <<>>
    ELSE IF Len(fields) = 1 THEN fields[1]
    ELSE fields[1] \o <<sep>> \o JoinWith(Tail(fields), sep)

\* ------------------------------------------------- pandas: the parser ---
\* The C tokenizer on one line: split at commas outside quotes; a quote at
\* the start of a field opens a quoted field, a doubled quote inside one is
\* a literal quote.
RECURSIVE Tok(_, _, _, _, _)
Tok(line, i, inQuote, cur, acc) ==
    IF i > Len(line) THEN Append(acc, cur)
    ELSE IF inQuote THEN
        IF line[i] = "\""
        THEN IF i < Len(line) /\ line[i + 1] = "\""
             THEN Tok(line, i + 2, TRUE, Append(cur, "\""), acc)
             ELSE Tok(line, i + 1, FALSE, cur, acc)
        ELSE Tok(line, i + 1, TRUE, Append(cur, line[i]), acc)
    ELSE IF line[i] = "," THEN Tok(line, i + 1, FALSE, <<>>, Append(acc, cur))
    ELSE IF line[i] = "\"" /\ cur = <<>> THEN Tok(line, i + 1, TRUE, cur, acc)
    ELSE Tok(line, i + 1, FALSE, Append(cur, line[i]), acc)

Tokenize(line) == Tok(line, 1, FALSE, <<>>, <<>>)

\* skip_blank_lines=True: empty lines are not rows
RECURSIVE SkipBlankLines(_)
SkipBlankLines(lines) ==
    IF lines = <<>> THEN <<>>
    ELSE IF Head(lines) = <<>> THEN SkipBlankLines(Tail(lines))
    ELSE <<Head(lines)>> \o SkipBlankLines(Tail(lines))

UnnamedPrefix == <<"U", "n", "n", "a", "m", "e", "d", ":", " ">>

\* an empty header field at 0-based position i-1 is named "Unnamed: i-1"
FillUnnamed(header) ==
    [i \in 1..Len(header) |->
        IF header[i] = <<>> THEN UnnamedPrefix \o IntText(i - 1) ELSE header[i]]

\* Renaming of repeated header names, as the C parser does it when it reads
\* the header (pandas 1.5 and later; earlier releases resolve a collision
\* with a name already in the header by a longer suffix instead, A.1.1
\* where this gives A.2).  counts maps a name to the number of the next
\* suffix to try; a name never counted maps to 0.
CountOf(counts, name) == IF name \in DOMAIN counts THEN counts[name] ELSE 0

SetCount(counts, name, v) ==
    [x \in DOMAIN counts \cup {name} |-> IF x = name THEN v ELSE counts[x]]

InHeader(name, header) == \E i \in 1..Len(header) : header[i] = name

\* the loop that looks for a free name "old.k": a candidate that is already
\* in the header is passed over
RECURSIVE FreeName(_, _, _, _, _)
FreeName(old, col, cur, counts, header) ==
    IF cur = 0 THEN [col |-> col, counts |-> counts]
    ELSE LET bumped == SetCount(counts, old, cur + 1)
             tried  == old \o <<".">> \o IntText(cur)
         IN  IF InHeader(tried, header)
             THEN FreeName(old, tried, cur + 1, bumped, header)
             ELSE FreeName(old, tried, CountOf(bumped, tried), bumped, header)

RECURSIVE MangleInOrder(_, _, _)
MangleInOrder(order, counts, header) ==
    IF order = <<>> THEN header
    ELSE LET i     == Head(order)
             found == FreeName(header[i], header[i],
                               CountOf(counts, header[i]), counts, header)
         IN  MangleInOrder(Tail(order),
                           SetCount(found.counts, found.col, 1),
                           [header EXCEPT ![i] = found.col])

\* the positions of a set, in increasing order
RECURSIVE Ascending(_)
Ascending(set) ==
    IF set = {} THEN <<>>
    ELSE LET least == CHOOSE i \in set : \A j \in set : i <= j
         IN  <<least>> \o Ascending(set \ {least})

\* mangle_dupe_cols: the columns that have a name of their own are renamed
\* first, those named "Unnamed: i" (positions unnamed) after them; a
\* repeated name X becomes the first of X.1, X.2, ... that is free
DedupNames(names, unnamed) ==
    MangleInOrder(Ascending((1..Len(names)) \ unnamed) \o Ascending(unnamed),
                  <<>>, names)

\* the column names read_csv gives a header line's fields
ColumnNames(header) ==
    DedupNames(FillUnnamed(header),
               {i \in 1..Len(header) : header[i] = <<>>})

\* a field the integer converter accepts: digits only
IsIntText(t) == t # <<>> /\ \A i \in 1..Len(t) : IsDigit(t[i])

\* The parts of a number text: the mantissa before the first e or E and
\* the exponent after it; ExpMarker is 0 when the text has no exponent.
ExpMarker(t) ==
    LET at == {i \in 1..Len(t) : t[i] = "e" \/ t[i] = "E"}
    IN  IF at = {} THEN 0 ELSE CHOOSE i \in at : \A j \in at : i <= j

Mantissa(t) == IF ExpMarker(t) = 0 THEN t ELSE SubSeq(t, 1, ExpMarker(t) - 1)

ExponentText(t) ==
    IF ExpMarker(t) = 0 THEN <<>> ELSE SubSeq(t, ExpMarker(t) + 1, Len(t))

\* the exponent's digits, after its optional sign
ExponentDigits(x) ==
    IF x # <<>> /\ (x[1] = "-" \/ x[1] = "+") THEN Tail(x) ELSE x

\* the words the float converter reads as infinity, in any letter case
InfWordsLower == { <<"i", "n", "f">>,
                   <<"i", "n", "f", "i", "n", "i", "t", "y">> }
InfWordsUpper == { <<"I", "N", "F">>,
                   <<"I", "N", "F", "I", "N", "I", "T", "Y">> }

IsInfWord(t) ==
    \E lo \in InfWordsLower : \E up \in InfWordsUpper :
        /\ Len(lo) = Len(t)
        /\ Len(up) = Len(t)
        /\ \A i \in 1..Len(t) : t[i] = lo[i] \/ t[i] = up[i]

\* a field the float converter accepts: digits with at most one point and
\* at least one digit, then optionally e or E, an optional sign and digits;
\* or a word for infinity
IsFloatText(t) ==
    \/ IsInfWord(t)
    \/ LET mt == Mantissa(t)
       IN  /\ \A i \in 1..Len(mt) : IsDigit(mt[i]) \/ mt[i] = "."
           /\ Cardinality({i \in 1..Len(mt) : mt[i] = "."}) <= 1
           /\ \E i \in 1..Len(mt) : IsDigit(mt[i])
           /\ ExpMarker(t) # 0 => IsIntText(ExponentDigits(ExponentText(t)))

\* Cells of a DataFrame.  A float is m / 10^e with m not a multiple of 10
\* unless e = 0, or infinity.
NaN == [k |-> "nan", m |-> 0, e |-> 0, s |-> <<>>]
Inf == [k |-> "inf", m |-> 0, e |-> 0, s |-> <<>>]
IntCell(n) == [k |-> "int", m |-> n, e |-> 0, s |-> <<>>]
StrCell(t) == [k |-> "str", m |-> 0, e |-> 0, s |-> t]

RECURSIVE FloatCell(_, _)
FloatCell(m, e) ==
    IF e > 0 /\ m % 10 = 0 THEN FloatCell(m \div 10, e - 1)
    ELSE [k |-> "float", m |-> m, e |-> e, s |-> <<>>]

\* the decimal exponent under which a double is zero: every value below
\* 1e-324 is nearer to 0 than to the smallest double
UnderflowExp10 == -324

\* the value of a number text: mantissa digits M with s digits after the
\* point and exponent x is M * 10^(x - s), that is d.ddd * 10^dx; a value
\* too small for a double is 0.0
ParseFloat(t) ==
    LET mt    == Mantissa(t)
        dot   == {i \in 1..Len(mt) : mt[i] = "."}
        scale == IF dot = {} THEN 0 ELSE Len(mt) - (CHOOSE i \in dot : TRUE)
        xt    == ExponentText(t)
        x     == IF xt = <<>> THEN 0
                 ELSE IF xt[1] = "-" THEN 0 - DigitsValue(ExponentDigits(xt))
                 ELSE DigitsValue(ExponentDigits(xt))
        M     == DigitsValue(StripDots(mt))
        dx    == Len(IntText(M)) - 1 + x - scale
    IN  IF IsInfWord(t) THEN Inf
        ELSE IF M = 0 \/ dx < UnderflowExp10 THEN FloatCell(0, 0)
        ELSE IF x >= scale THEN FloatCell(M * Pow10(x - scale), 0)
        ELSE FloatCell(M, scale - x)

\* Type inference over one column of field texts: int64 when every field
\* is an integer, float64 when every non-empty field is a number (an empty
\* field is NaN, so integers next to an empty field become floats), object
\* otherwise.
InferColumn(texts) ==
    LET n == Len(texts)
    IN  IF n > 0 /\ \A r \in 1..n : IsIntText(texts[r])
        THEN [r \in 1..n |-> IntCell(DigitsValue(texts[r]))]
        ELSE IF \A r \in 1..n : texts[r] = <<>> \/ IsFloatText(texts[r])
        THEN [r \in 1..n |->
                 IF texts[r] = <<>> THEN NaN ELSE ParseFloat(texts[r])]
        ELSE [r \in 1..n |->
                 IF texts[r] = <<>> THEN NaN ELSE StrCell(texts[r])]

FieldAt(row, c) == IF c <= Len(row) THEN row[c] ELSE <<>>

\* pd.read_csv on the lines of a file: EmptyDataError when nothing is left
\* after skipping blank lines, else a frame with the mangled header as
\* columns and one row per remaining line.
ReadCsv(lines) ==
    LET kept == SkipBlankLines(lines)
    IN  IF kept = <<>>
        THEN [ok |-> FALSE, columns |-> <<>>, data |-> <<>>]
        ELSE LET names == ColumnNames(Tokenize(kept[1]))
                 nrow  == Len(kept) - 1
                 ncol  == Len(names)
                 rows  == [r \in 1..nrow |-> Tokenize(kept[r + 1])]
                 col(c) == InferColumn([r \in 1..nrow |-> FieldAt(rows[r], c)])
             IN  [ok |-> TRUE,
                  columns |-> names,
                  data |-> [r \in 1..nrow |-> [c \in 1..ncol |-> col(c)[r]]]]

\* ------------------------------------------------- pandas: the writer ---
\* repr of the float m / 10^e: with decimal exponent x (the value is
\* d.ddd * 10^x), positional notation with at least one fraction digit
\* when x >= -4, else the digits, "e-" and the exponent on two digits.
\* (repr also switches to an exponent from 1e16 up; the integers of the
\* model stop below that.)
FloatText(m, e) ==
    LET digits == IntText(m)
        x      == Len(digits) - 1 - e
    IN  IF m > 0 /\ x < 0 - 4
        THEN <<digits[1]>> \o
             (IF Len(digits) = 1 THEN <<>> ELSE <<".">> \o Tail(digits)) \o
             <<"e", "-">> \o ZeroPad(IntText(0 - x), 2)
        ELSE IntText(m \div Pow10(e)) \o <<".">> \o
             (IF e = 0 THEN <<"0">> ELSE ZeroPad(IntText(m % Pow10(e)), e))

FormatCell(cell) ==
    CASE cell.k = "nan"   -> <<>>
      [] cell.k = "inf"   -> <<"i", "n", "f">>
      [] cell.k = "int"   -> IntText(cell.m)
      [] cell.k = "float" -> FloatText(cell.m, cell.e)
      [] cell.k = "str"   -> cell.s

RECURSIVE DoubleQuotes(_)
DoubleQuotes(t) ==
    IF t = <<>> THEN <<>>
    ELSE IF Head(t) = "\"" THEN <<"\"", "\"">> \o DoubleQuotes(Tail(t))
    ELSE <<Head(t)>> \o DoubleQuotes(Tail(t))

\* csv.QUOTE_MINIMAL
QuoteField(t) ==
    IF \E i \in 1..Len(t) : t[i] = "," \/ t[i] = "\""
    THEN <<"\"">> \o DoubleQuotes(t) \o <<"\"">>
    ELSE t

\* csv.writer.writerow: a row of no field is an empty line, a row whose
\* only field is empty is written as two quotes
WriteRow(fields) ==
    IF fields = <<<<>>>> THEN <<"\"", "\"">>
    ELSE JoinWith([i \in 1..Len(fields) |-> QuoteField(fields[i])], ",")

\* DataFrame.to_csv(index=index): the header line, then one line per row;
\* with index=True the row label (0, 1, ...) leads each row under an empty
\* header field.
ToCsv(frame, index) ==
    LET lead(r) == IF index THEN <<IntText(r - 1)>> ELSE <<>>
        head    == (IF index THEN <<<<>>>> ELSE <<>>) \o frame.columns
        line(r) == WriteRow(lead(r) \o
                       [c \in 1..Len(frame.data[r]) |->
                           FormatCell(frame.data[r][c])])
    IN  <<WriteRow(head)>> \o [r \in 1..Len(frame.data) |-> line(r)]

\* df.iloc[:, :-1]: the column dropped is the last one
DropLastColumn(frame) ==
    [columns |-> SubSeq(frame.columns, 1, Len(frame.columns) - 1),
     data    |-> [r \in 1..Len(frame.data) |->
                     SubSeq(frame.data[r], 1, Len(frame.data[r]) - 1)]]

\* a guard that keeps a frame of one column as it is
DropFirstColumnGuarded(frame) ==
    IF Len(frame.columns) <= 1 THEN frame
    ELSE [columns |-> SubSeq(frame.columns, 2, Len(frame.columns)),
          data    |-> [r \in 1..Len(frame.data) |->
                          SubSeq(frame.data[r], 2, Len(frame.data[r]))]]

\* df.iloc[:, 1:]
DropFirstColumn(frame) ==
    [columns |-> SubSeq(frame.columns, 2, Len(frame.columns)),
     data    |-> [r \in 1..Len(frame.data) |->
                     SubSeq(frame.data[r], 2, Len(frame.data[r]))]]

\* df.to_csv(output_file): the index=False argument forgotten
WriteOutputWithIndex(frame) == ToCsv(frame, TRUE)

\* df.to_csv(output_file, index=False)
WriteOutput(frame) == ToCsv(frame, FALSE)

\* --------------------------------------------------------- the script ---
input_file == "C:/Users/dlisz/Desktop/Rust Projects/First Rust Project/my_project/src/data/2018-09-01-2024-Bitfinex_Spot-4h.csv"
output_file == "C:/Users/dlisz/Desktop/Rust Projects/First Rust Project/my_project/src/data/2018-09-01-2024-Bitfinex_Spot-4h-puta.csv"
\* the script itself, a file next to the two it names
script_file == "C:/Users/dlisz/Desktop/Rust Projects/First Rust Project/my_project/src/data/convert.py"

Paths == {input_file, output_file, script_file}

Message ==
    "The first column has been removed and the updated file is saved as '"
        \o output_file \o "'."

Absent == [exists |-> FALSE, readable |-> FALSE, lines |-> <<>>]
FileOf(lines) == [exists |-> TRUE, readable |-> TRUE, lines |-> lines]
NoFrame == [columns |-> <<>>, data |-> <<>>]

Steps == <<"load", "transform", "save", "report">>

VARIABLES
    fs,        \* path -> file: the file system
    outDir,    \* the directory of output_file: "writable", "missing", "full"
    pc,        \* the statement the run is at, or "done" / "failed"
    df,        \* the DataFrame bound to df
    stdout,    \* lines printed by the current run
    error,     \* the exception that ended the run, or "none"
    trace,     \* statements the current run has executed, in order
    run,       \* number of the current run
    fs0,       \* the file system when the current run started
    original   \* lines of input_file when the first run started

vars == <<fs, outDir, pc, df, stdout, error, trace, run, fs0, original>>

\* ----------------------------------------------------- the input files ---
Letters == <<"A", "B", "C", "D", "E">>

\* header shapes: distinct names, one name repeated, an empty first name,
\* an empty second name, a repeated name next to the name its first
\* renaming would take (A, A, A.1)
HeaderShapes ==
    {"distinct", "same", "first empty", "second empty", "collision"}

LetterAt(j) == <<Letters[((j - 1) % Len(Letters)) + 1]>>

NameAt(shape, j) ==
    CASE shape = "distinct"     -> LetterAt(j)
      [] shape = "same"         -> <<"A">>
      [] shape = "first empty"  -> IF j = 1 THEN <<>> ELSE LetterAt(j)
      [] shape = "second empty" -> IF j = 2 THEN <<>> ELSE LetterAt(j)
      [] shape = "collision"    ->
            IF j <= 2 THEN <<"A">>
            ELSE <<"A", ".", "1">>

\* the texts a column holds, row after row (repeated cyclically)
ColumnPool ==
    << << <<"1">>, <<"5">>, <<"0">> >>,
       << <<"0", "0", "1">>, <<"1">>, <<"5">> >>,
       << <<>>, <<"1">>, <<"5">> >>,
       << <<"1", ".", "5", "0">>, <<"0", ".", "0", "0", "0", "0", "1">>, <<>> >>,
       << <<"a">>, <<"0", "0", "1">>, <<"1", ".", "5", "0">> >> >>

PoolCell(kind, r) == ColumnPool[kind][((r - 1) % Len(ColumnPool[kind])) + 1]

TableRows(shape, kinds, n) ==
    <<[j \in 1..Len(kinds) |-> NameAt(shape, j)]>> \o
    [r \in 1..n |-> [j \in 1..Len(kinds) |-> PoolCell(kinds[j], r)]]

\* The tables of the given widths as files: fields joined by commas, or
\* written the way the csv module writes rows (the two differ on a lone
\* empty field).  The collision header is a header of three columns: on
\* fewer it is the repeated name.
InputFiles(widths) ==
    UNION { UNION { { [r \in 1..(n + 1) |->
                          JoinWith(TableRows(shape, kinds, n)[r], ",")],
                      [r \in 1..(n + 1) |->
                          WriteRow(TableRows(shape, kinds, n)[r])] }
                    : kinds \in [1..c -> 1..Len(ColumnPool)] }
            : <<shape, c, n>> \in
                  { t \in HeaderShapes \X widths \X (0..MaxRows) :
                        t[1] = "collision" => t[2] = 3 } }

StaleLines == << <<"o", "l", "d">> >>

\* Every table is run with a writable directory and no output file yet;
\* the tables narrower than MaxCols are also run with a missing source, an
\* unreadable source, an output file left by an earlier run, a missing
\* directory and a full disk.
Init ==
    /\ \/ /\ \E l \in InputFiles(1..MaxCols) :
                fs = [p \in Paths |->
                         IF p = input_file THEN FileOf(l)
                         ELSE IF p = output_file THEN Absent
                         ELSE FileOf(<<>>)]
          /\ outDir = "writable"
       \/ /\ \E src \in {Absent} \cup
                        {[exists |-> TRUE, readable |-> rd, lines |-> l] :
                            rd \in BOOLEAN, l \in InputFiles(1..(MaxCols - 1))},
                dst \in {Absent, FileOf(StaleLines)} :
                fs = [p \in Paths |->
                         IF p = input_file THEN src
                         ELSE IF p = output_file THEN dst
                         ELSE FileOf(<<>>)]
          /\ outDir \in {"writable", "missing", "full"}
          /\ outDir = "missing" => ~fs[output_file].exists
    /\ pc = "load"
    /\ df = NoFrame
    /\ stdout = <<>>
    /\ error = "none"
    /\ trace = <<>>
    /\ run = 1
    /\ fs0 = fs
    /\ original = fs[input_file].lines

Fail(step, exc) ==
    /\ pc' = "failed"
    /\ error' = exc
    /\ trace' = Append(trace, step)

\* the output file opened for writing before the input is read
LoadAfterOpeningOutput ==
    /\ pc = "load"
    /\ fs' = [fs EXCEPT ![output_file] = FileOf(<<>>)]
    /\ LET f   == fs[input_file]
           res == ReadCsv(f.lines)
       IN  IF ~f.exists THEN Fail("load", "FileNotFoundError") /\ df' = df
           ELSE IF ~f.readable THEN Fail("load", "PermissionError") /\ df' = df
           ELSE IF ~res.ok THEN Fail("load", "EmptyDataError") /\ df' = df
           ELSE /\ df' = [columns |-> res.columns, data |-> res.data]
                /\ pc' = "transform"
                /\ error' = error
                /\ trace' = Append(trace, "load")
    /\ UNCHANGED <<outDir, stdout, run, fs0, original>>

\* df = pd.read_csv(input_file)
Load ==
    /\ pc = "load"
    /\ LET f   == fs[input_file]
           res == ReadCsv(f.lines)
       IN  IF ~f.exists THEN Fail("load", "FileNotFoundError") /\ df' = df
           ELSE IF ~f.readable THEN Fail("load", "PermissionError") /\ df' = df
           ELSE IF ~res.ok THEN Fail("load", "EmptyDataError") /\ df' = df
           ELSE /\ df' = [columns |-> res.columns, data |-> res.data]
                /\ pc' = "transform"
                /\ error' = error
                /\ trace' = Append(trace, "load")
    /\ UNCHANGED <<fs, outDir, stdout, run, fs0, original>>

\* df = df.iloc[:, 1:]
Transform ==
    /\ pc = "transform"
    /\ df' = DropFirstColumn(df)
    /\ pc' = "save"
    /\ trace' = Append(trace, "transform")
    /\ UNCHANGED <<fs, outDir, stdout, error, run, fs0, original>>

\* the write wrapped in a handler that swallows the error and goes on
SaveIgnoringErrors ==
    /\ pc = "save"
    /\ LET out == WriteOutput(df) IN
       CASE outDir = "missing" -> fs' = fs
            [] outDir = "full" ->
                   \E k \in 0..(Len(out) - 1) :
                       fs' = [fs EXCEPT ![output_file] =
                                 FileOf(SubSeq(out, 1, k))]
            [] outDir = "writable" ->
                   fs' = [fs EXCEPT ![output_file] = FileOf(out)]
    /\ pc' = "report"
    /\ error' = error
    /\ trace' = Append(trace, "save")
    /\ UNCHANGED <<outDir, df, stdout, run, fs0, original>>

\* the result written over the file it was read from
SaveOverInput ==
    /\ pc = "save"
    /\ LET out == WriteOutput(df) IN
       CASE outDir = "missing" ->
                   Fail("save", "OSError") /\ fs' = fs
            [] outDir = "full" ->
                   /\ Fail("save", "OSError")
                   /\ \E k \in 0..(Len(out) - 1) :
                         fs' = [fs EXCEPT ![input_file] =
                                   FileOf(SubSeq(out, 1, k))]
            [] outDir = "writable" ->
                   /\ fs' = [fs EXCEPT ![input_file] = FileOf(out)]
                   /\ pc' = "report"
                   /\ error' = error
                   /\ trace' = Append(trace, "save")
    /\ UNCHANGED <<outDir, df, stdout, run, fs0, original>>

\* df.to_csv(output_file, index=False): the open fails when the directory
\* is missing; a full disk leaves a truncated file behind.
Save ==
    /\ pc = "save"
    /\ LET out == WriteOutput(df) IN
       CASE outDir = "missing" ->
                   Fail("save", "OSError") /\ fs' = fs
            [] outDir = "full" ->
                   /\ Fail("save", "OSError")
                   /\ \E k \in 0..(Len(out) - 1) :
                         fs' = [fs EXCEPT ![output_file] =
                                   FileOf(SubSeq(out, 1, k))]
            [] outDir = "writable" ->
                   /\ fs' = [fs EXCEPT ![output_file] = FileOf(out)]
                   /\ pc' = "report"
                   /\ error' = error
                   /\ trace' = Append(trace, "save")
    /\ UNCHANGED <<outDir, df, stdout, run, fs0, original>>

\* print(f"The first column has been removed ... '{output_file}'.")
Report ==
    /\ pc = "report"
    /\ stdout' = Append(stdout, Message)
    /\ pc' = "done"
    /\ trace' = Append(trace, "report")
    /\ UNCHANGED <<fs, outDir, df, error, run, fs0, original>>

\* The script is run again on its own result: the file it wrote is put at
\* input_file and a new process starts.
Rerun ==
    /\ pc = "done"
    /\ run < MaxRuns
    /\ fs' = [fs EXCEPT ![input_file] = fs[output_file],
                        ![output_file] = Absent]
    /\ fs0' = fs'
    /\ run' = run + 1
    /\ pc' = "load"
    /\ df' = NoFrame
    /\ stdout' = <<>>
    /\ error' = "none"
    /\ trace' = <<>>
    /\ UNCHANGED <<outDir, original>>

Next == Load \/ Transform \/ Save \/ Report \/ Rerun

Spec == Init /\ [][Next]_vars

\* ------------------------------------------------------------- claims ---
\* The fields of a line as the bytes between its commas; an empty line
\* holds no field (a lone empty field is written as two quotes).
RECURSIVE SplitCommas(_, _)
SplitCommas(line, cur) ==
    IF line = <<>> THEN <<cur>>
    ELSE IF Head(line) = "," THEN <<cur>> \o SplitCommas(Tail(line), <<>>)
    ELSE SplitCommas(Tail(line), Append(cur, Head(line)))

RawFields(line) == IF line = <<>> THEN <<>> ELSE SplitCommas(line, <<>>)

InLines == fs0[input_file].lines
OutLines == fs[output_file].lines
Width(lines) == Len(RawFields(lines[1]))

\* a header of at least one field and the same number of fields in every
\* line
ValidTable(lines) ==
    /\ lines # <<>>
    /\ Width(lines) >= 1
    /\ \A r \in 1..Len(lines) : Len(RawFields(lines[r])) = Width(lines)

Succeeded == pc = "done" /\ ValidTable(InLines)

\* C1: a successful run on a valid table of N data rows and W >= 1 columns
\* writes a file of a header line and N data lines, each of W - 1 fields.
C1_OutputShape ==
    Succeeded =>
        /\ Len(OutLines) = Len(InLines)
        /\ \A r \in 1..Len(OutLines) :
              Len(RawFields(OutLines[r])) = Width(InLines) - 1

C1_Witness ==
    /\ Succeeded
    /\ Width(InLines) = 3
    /\ Len(InLines) = 3
    /\ Len(OutLines) = 3
    /\ Len(RawFields(OutLines[3])) = 2

\* C2: after a successful run every data cell (r, j-1) of the output holds
\* the very bytes of the input cell (r, j), for every column j >= 1
\* (0-based) of the input.
C2_ByteIdentical ==
    Succeeded =>
        \A r \in 2..Len(InLines) : \A j \in 2..Width(InLines) :
            /\ r <= Len(OutLines)
            /\ j - 1 <= Len(RawFields(OutLines[r]))
            /\ RawFields(OutLines[r])[j - 1] = RawFields(InLines[r])[j]

\* The text a field stands for: a lone empty field is written as two
\* quotes.
Plain(field) == IF field = <<"\"", "\"">> THEN <<>> ELSE field

\* A numeral: digits with at most one point, then optionally an exponent.
NumeralMantissa(t) ==
    LET at == {i \in 1..Len(t) : t[i] = "e"}
    IN  IF at = {} THEN t ELSE SubSeq(t, 1, (CHOOSE i \in at : TRUE) - 1)

NumeralExponent(t) ==
    LET at == {i \in 1..Len(t) : t[i] = "e"}
        x  == IF at = {} THEN <<>>
              ELSE SubSeq(t, (CHOOSE i \in at : TRUE) + 1, Len(t))
    IN  IF x = <<>> THEN 0
        ELSE IF Head(x) = "-" THEN 0 - DigitsValue(Tail(x))
        ELSE DigitsValue(x)

IsNumeral(t) ==
    LET mt == NumeralMantissa(t)
    IN  /\ Cardinality({i \in 1..Len(t) : t[i] = "e"}) <= 1
        /\ Cardinality({i \in 1..Len(mt) : mt[i] = "."}) <= 1
        /\ \E i \in 1..Len(mt) : IsDigit(mt[i])
        /\ \A i \in 1..Len(mt) : IsDigit(mt[i]) \/ mt[i] = "."
        /\ \A i \in (Len(mt) + 2)..Len(t) :
              IsDigit(t[i]) \/ (i = Len(mt) + 2 /\ t[i] = "-")
        /\ Len(t) > Len(mt) => \E i \in (Len(mt) + 2)..Len(t) : IsDigit(t[i])

\* Two numerals are the same number: with n digits after the point and
\* exponent x a numeral is its digits times 10^(x - n).
SameNumber(a, b) ==
    LET digits(t) == DigitsValue(SelectSeq(NumeralMantissa(t), IsDigit))
        frac(t)   == LET mt  == NumeralMantissa(t)
                         dot == {i \in 1..Len(mt) : mt[i] = "."}
                     IN  IF dot = {} THEN 0
                         ELSE Len(mt) - (CHOOSE i \in dot : TRUE)
        pa == NumeralExponent(a) - frac(a)
        pb == NumeralExponent(b) - frac(b)
        lo == IF pa < pb THEN pa ELSE pb
    IN  digits(a) * Pow10(pa - lo) = digits(b) * Pow10(pb - lo)

\* An output cell holds what the input cell holds: the same text, or the
\* same number.
SameCell(a, b) ==
    \/ Plain(a) = Plain(b)
    \/ IsNumeral(Plain(a)) /\ IsNumeral(Plain(b)) /\ SameNumber(Plain(a), Plain(b))

\* An output header field names the input column at 0-based position j0:
\* the input name itself ("Unnamed: j0" for a column without a name), or
\* that name followed by numeric suffixes ".k".
NamesColumn(outName, inName, j0) ==
    LET base == IF inName = <<>> THEN UnnamedPrefix \o IntText(j0) ELSE inName
    IN  \/ outName = base
        \/ /\ Len(outName) >= Len(base) + 2
           /\ SubSeq(outName, 1, Len(base) + 1) = base \o <<".">>
           /\ IsDigit(outName[Len(outName)])
           /\ \A i \in (Len(base) + 2)..Len(outName) :
                 IsDigit(outName[i]) \/ outName[i] = "."

\* C3: after a successful run the output column at position j-1 is the
\* input column at position j, for every j >= 1 (0-based), and the column
\* removed is the one at position 0 whatever it holds.  Read from the two
\* files alone: the output header field j-1 names the input column j, no
\* two output columns have the same name, and every output cell (r, j-1)
\* holds the text or the number of the input cell (r, j).  Read against the
\* parser: the name is the one read_csv gave column j and the cell is
\* column j's cell as pandas parses and writes it.
C3_ColumnOrder ==
    Succeeded =>
        LET n     == Len(InLines) - 1
            w     == Width(InLines)
            names == ColumnNames(Tokenize(InLines[1]))
            col(j) == InferColumn([q \in 1..n |-> Tokenize(InLines[q + 1])[j]])
        IN  /\ Len(OutLines) = n + 1
            /\ \A r \in 1..(n + 1) : Len(RawFields(OutLines[r])) = w - 1
            /\ \A j \in 2..w :
                  /\ NamesColumn(Plain(RawFields(OutLines[1])[j - 1]),
                                 Plain(RawFields(InLines[1])[j]), j - 1)
                  /\ \A i \in 2..w :
                        RawFields(OutLines[1])[i - 1] =
                            RawFields(OutLines[1])[j - 1] => i = j
                  /\ \A r \in 2..(n + 1) :
                        SameCell(RawFields(InLines[r])[j],
                                 RawFields(OutLines[r])[j - 1])
                  /\ Tokenize(OutLines[1])[j - 1] = names[j]
                  /\ \A r \in 1..n :
                        Tokenize(OutLines[r + 1])[j - 1] = FormatCell(col(j)[r])

C3_Witness ==
    /\ Succeeded
    /\ Width(InLines) = 3
    /\ RawFields(InLines[1]) = <<<<"A">>, <<"A">>, <<"A", ".", "1">>>>
    /\ RawFields(OutLines[1]) = <<<<"A", ".", "2">>, <<"A", ".", "1">>>>
    /\ Len(InLines) = 3
    /\ RawFields(InLines[2])[2] # RawFields(InLines[2])[3]
    /\ RawFields(InLines[2])[1] # RawFields(InLines[2])[2]
    /\ RawFields(OutLines[2])[1] # RawFields(OutLines[2])[2]

\* C4: after a successful run the output header field j-1 is the input
\* header field j, unrenamed, for every j >= 1 (0-based).
C4_HeaderUnrenamed ==
    Succeeded =>
        \A j \in 2..Width(InLines) :
            /\ OutLines # <<>>
            /\ j - 1 <= Len(RawFields(OutLines[1]))
            /\ RawFields(OutLines[1])[j - 1] = RawFields(InLines[1])[j]

\* C5: after a successful run on a table of two or more columns the first
\* field of every output line, the header included, is the second field of
\* the same input line.
C5_NoIndexColumn ==
    (Succeeded /\ Width(InLines) >= 2) =>
        \A r \in 1..Len(InLines) :
            /\ r <= Len(OutLines)
            /\ RawFields(OutLines[r]) # <<>>
            /\ RawFields(OutLines[r])[1] = RawFields(InLines[r])[2]

\* C6: when the source file is missing or unreadable the run fails in the
\* load step, having executed nothing else, and output_file is as it was
\* when the run started: still absent, or still holding its old content.
C6_MissingSource ==
    ((~fs0[input_file].exists \/ ~fs0[input_file].readable) /\ pc # "load") =>
        /\ pc = "failed"
        /\ trace = <<"load">>
        /\ error \in {"FileNotFoundError", "PermissionError"}
        /\ fs[output_file] = fs0[output_file]

C6_Witness ==
    /\ pc = "failed"
    /\ ~fs0[input_file].exists
    /\ error = "FileNotFoundError"
    /\ ~fs[output_file].exists

\* C7: the steps of a run are a prefix of load, transform, save, report;
\* the confirmation line is printed exactly once when the run is done and
\* not at all before that or in a failed run; it is printed only after the
\* save wrote the whole frame; a failed run stopped at the step that failed
\* and takes no further step.
C7_Order ==
    /\ Len(trace) <= Len(Steps)
    /\ trace = SubSeq(Steps, 1, Len(trace))
    /\ stdout \in {<<>>, <<Message>>}
    /\ stdout = <<Message>> <=> pc = "done"
    /\ pc = "done" => trace = Steps /\ error = "none"
    /\ pc \in {"report", "done"} => fs[output_file] = FileOf(WriteOutput(df))
    /\ pc = "failed" =>
          /\ trace # <<>>
          /\ trace[Len(trace)] \in {"load", "save"}
          /\ error # "none"
    /\ pc \notin {"done", "failed"} => pc = Steps[Len(trace) + 1]

C7_Step ==
    /\ pc # "failed"
    /\ run' = run => /\ Len(trace') = Len(trace) + 1
                     /\ SubSeq(trace', 1, Len(trace)) = trace

C7_LinearSteps == []C7_Order /\ [][C7_Step]_vars

C7_Witness ==
    /\ pc = "done"
    /\ trace = <<"load", "transform", "save", "report">>
    /\ stdout = <<Message>>

\* C8: the second of two successful runs, reading the first one's output,
\* leaves the original table (two or more columns) without its columns 0
\* and 1 and with every other cell and header field byte for byte as it
\* was.
C8_TwoRuns ==
    (run = 2 /\ pc = "done" /\ ValidTable(original) /\ Width(original) >= 2) =>
        /\ Len(OutLines) = Len(original)
        /\ \A r \in 1..Len(original) :
              /\ r <= Len(OutLines)
              /\ Len(RawFields(OutLines[r])) = Width(original) - 2
              /\ \A j \in 3..Width(original) :
                    RawFields(OutLines[r])[j - 2] = RawFields(original[r])[j]

\* C9: at every point of a run, failed or not, every file other than
\* output_file, the source among them, is as it was when the run started.
C9_SourceUntouched ==
    \A p \in Paths \ {output_file} : fs[p] = fs0[p]

C9_Witness ==
    /\ pc = "done"
    /\ fs[input_file].exists
    /\ fs[input_file] = fs0[input_file]
    /\ fs[output_file] # fs0[output_file]

\* C10: when the header of the source (its first non-empty line) has
\* exactly one field the load yields a one-column table, the transform step
\* does not fail and leaves a frame of no column and as many rows; the run
\* goes on to save and report, failing only if the save itself cannot
\* write, and a finished run has printed the confirmation line.
C10_SingleColumn ==
    LET src  == fs0[input_file]
        kept == SkipBlankLines(src.lines)
    IN  (src.exists /\ src.readable /\ kept # <<>> /\ Len(Tokenize(kept[1])) = 1)
        =>  /\ pc # "load" => error # "EmptyDataError"
            /\ pc \in {"save", "report", "done", "failed"} =>
                  /\ df.columns = <<>>
                  /\ Len(df.data) = Len(kept) - 1
                  /\ \A r \in 1..Len(df.data) : df.data[r] = <<>>
            /\ pc = "failed" =>
                  trace = <<"load", "transform", "save">> /\ outDir # "writable"
            /\ pc = "done" => stdout = <<Message>> /\ fs[output_file].exists

C10_Witness ==
    /\ pc = "done"
    /\ Len(ReadCsv(InLines).columns) = 1
    /\ Len(ReadCsv(InLines).data) = 2
    /\ df.columns = <<>>
    /\ Len(df.data) = 2
    /\ stdout = <<Message>>

=============================================================================
